---- MODULE Spec2Model ----
(***************************************************************************)
(* Model of the multi-agent fault-diagnosis orchestrator                   *)
(* (src/mutli_agent): BaseAgent.run and its tool loop, the agents' output  *)
(* parsers, ExpertSelector, the thread-pool fan-out of                     *)
(* FaultOrchestrator and FaultOrchestrator.diagnose.                       *)
(*                                                                         *)
(* Four entry points of the code are modelled; `mode' says which one a     *)
(* behaviour exercises:                                                    *)
(*   "diagnose"  FaultOrchestrator.diagnose(user_input, output_format)     *)
(*   "run"       one BaseAgent.run(input_data, max_tool_calls) call        *)
(*   "select"    calls of ExpertSelector.select_experts on one selector    *)
(*   "collect"   one ContextCollector.collect_all_context call             *)
(*                                                                         *)
(* Text produced by the language model is represented by its lexical       *)
(* structure, which is all the parsers look at:                            *)
(*   wrap  "bare"   the stripped text is exactly one JSON document         *)
(*         "fenced" a JSON document between ``` code-fence markers         *)
(*         "prose"  free text, possibly with one {...} group inside        *)
(*   json  the JSON document / brace group: an object (a record), an       *)
(*         array, or "invalid" (nothing that json.loads accepts)           *)
(* Python dicts are records; "k in d" is k \in DOMAIN d.  Fault types are  *)
(* strings.  Numbers that only get converted with float() are numerals     *)
(* written as strings.                                                     *)
(***************************************************************************)
EXTENDS Integers, Sequences, FiniteSets, TLC

(* ---------------- bounds of the model ---------------- *)

\* largest max_tool_calls argument tried for a stand-alone BaseAgent.run
MaxN == 3

\* number of select_experts calls made on one ExpertSelector
MaxSelectCalls == 2

\* cap on model calls of one run (only reached if the call limit is broken)
MaxModelCalls == MaxN + 2

\* largest number of live and of dead DataNodes in the collected metrics
MaxDatanodes == 3

(* ---------------- program constants ---------------- *)

\* default of the max_tool_calls parameter of BaseAgent.run
DefaultMaxToolCalls == 2

Experts ==
    {"hdfs_expert", "yarn_expert", "mapreduce_expert", "network_expert",
     "generic_expert"}

Agents == Experts \cup {"classifier", "discussion"}

\* ToolAdapter.create_tools_registry
ToolRegistry ==
    {"get_cluster_logs", "get_node_log", "get_monitoring_metrics",
     "search_logs_by_keyword", "get_error_logs_summary",
     "hadoop_auto_operation", "execute_hadoop_command",
     "generate_repair_plan"}

\* tool subset of the YARN expert (yarn_expert.py is not part of the sources)
YarnTools ==
    {"get_cluster_logs", "get_node_log", "get_monitoring_metrics",
     "execute_hadoop_command", "search_logs_by_keyword"}

\* the classifier and the Discussion Agent constructed with the registry
\* instead of tools=None
AgentToolsAllHoldRegistry(a) ==
    CASE a = "hdfs_expert" ->
            {"get_cluster_logs", "get_node_log", "get_monitoring_metrics",
             "execute_hadoop_command", "search_logs_by_keyword"}
      [] a = "mapreduce_expert" ->
            {"get_cluster_logs", "get_node_log", "get_monitoring_metrics",
             "execute_hadoop_command", "search_logs_by_keyword"}
      [] a = "network_expert" ->
            {"get_cluster_logs", "get_node_log", "execute_hadoop_command",
             "search_logs_by_keyword"}
      [] a = "yarn_expert" ->
            {"get_cluster_logs", "get_node_log", "get_monitoring_metrics",
             "execute_hadoop_command", "search_logs_by_keyword"}
      [] OTHER ->
            {"get_cluster_logs", "get_node_log", "get_monitoring_metrics",
             "search_logs_by_keyword", "get_error_logs_summary",
             "hadoop_auto_operation", "execute_hadoop_command",
             "generate_repair_plan"}

\* self.tools of each agent, as set up by its __init__
AgentTools(a) ==
    CASE a = "hdfs_expert" ->
            {"get_cluster_logs", "get_node_log", "get_monitoring_metrics",
             "execute_hadoop_command", "search_logs_by_keyword"}
                \cap ToolRegistry
      [] a = "mapreduce_expert" ->
            {"get_cluster_logs", "get_node_log", "get_monitoring_metrics",
             "execute_hadoop_command", "search_logs_by_keyword"}
                \cap ToolRegistry
      [] a = "network_expert" ->
            {"get_cluster_logs", "get_node_log", "execute_hadoop_command",
             "search_logs_by_keyword"} \cap ToolRegistry
      [] a = "generic_expert" -> ToolRegistry
      [] a = "yarn_expert" -> YarnTools \cap ToolRegistry
      [] OTHER -> {}

\* FAULT_TYPE_LIBRARY: fault type -> its "category" field
FAULT_TYPE_LIBRARY ==
    [datanode_down |-> "hdfs",
     namenode_safemode |-> "hdfs",
     cluster_id_mismatch |-> "hdfs",
     resourcemanager_down |-> "yarn",
     nodemanager_down |-> "yarn",
     yarn_config_error |-> "yarn",
     mapreduce_memory_insufficient |-> "mapreduce",
     mapreduce_disk_insufficient |-> "mapreduce",
     mapreduce_shuffle_failed |-> "mapreduce",
     mapreduce_task_timeout |-> "mapreduce"]

\* fault types tried as inputs: the taxonomy, and three that are not in it
FaultTypeInputs == DOMAIN FAULT_TYPE_LIBRARY \cup {"unknown", "", "disk_full"}

(* ---------------- ExpertSelector ---------------- *)

\* ExpertSelector._build_fault_expert_mapping
BuildFaultExpertMapping ==
    [ft \in DOMAIN FAULT_TYPE_LIBRARY |->
        [primary |->
            CASE FAULT_TYPE_LIBRARY[ft] = "hdfs" -> <<"hdfs_expert">>
              [] FAULT_TYPE_LIBRARY[ft] = "yarn" -> <<"yarn_expert">>
              [] FAULT_TYPE_LIBRARY[ft] = "mapreduce" -> <<"mapreduce_expert">>
              [] OTHER -> <<"generic_expert">>,
         related |->
            CASE ft = "datanode_down" -> <<"network_expert">>
              [] ft \in {"mapreduce_memory_insufficient",
                         "mapreduce_disk_insufficient"} -> <<"yarn_expert">>
              [] ft = "yarn_config_error" -> <<"network_expert">>
              [] OTHER -> <<>>]]

\* list(dict.fromkeys(xs)): drop repeats, keep the first occurrences in order
RECURSIVE DictFromKeys(_)
DictFromKeys(xs) ==
    IF xs = <<>> THEN <<>>
    ELSE LET front == DictFromKeys(SubSeq(xs, 1, Len(xs) - 1))
             last == xs[Len(xs)]
         IN IF \E i \in 1..Len(front) : front[i] = last
            THEN front
            ELSE Append(front, last)

\* the value select_experts returns for a fault type missing from the mapping
UnknownFaultExperts == <<"generic_expert">>

\* select_experts without the branch for fault types missing from the mapping
select_experts_no_fallback(mapping, fault_type, include_related) ==
    LET known == fault_type \in DOMAIN mapping
        experts == IF known THEN mapping[fault_type].primary ELSE <<>>
        related == IF known THEN mapping[fault_type].related ELSE <<>>
    IN DictFromKeys(IF include_related THEN experts \o related ELSE experts)

\* ExpertSelector.select_experts, on the selector's mapping table
select_experts(mapping, fault_type, include_related) ==
    IF fault_type \notin DOMAIN mapping
    THEN UnknownFaultExperts
    ELSE LET experts == mapping[fault_type].primary
         IN DictFromKeys(IF include_related
                         THEN experts \o mapping[fault_type].related
                         ELSE experts)

\* the mapping table after a select_experts call that extends the stored
\* primary list itself: "experts = mapping["primary"]" without .copy()
MappingAfterSelectNoCopy(mapping, fault_type, include_related) ==
    IF fault_type \in DOMAIN mapping /\ include_related
    THEN [mapping EXCEPT ![fault_type].primary =
                             @ \o mapping[fault_type].related]
    ELSE mapping

\* self.fault_expert_mapping after a select_experts call: the call reads the
\* table, copies the primary list (.copy()) and extends the copy only
MappingAfterSelect(mapping, fault_type, include_related) == mapping

(* ---------------- dicts, JSON values and model texts ---------------- *)

\* d.get(k, default)
Get(d, k, default) == IF k \in DOMAIN d THEN d[k] ELSE default

\* d[k] = v
Put(d, k, v) == [x \in DOMAIN d \cup {k} |-> IF x = k THEN v ELSE d[x]]

\* Python's None
None == "None"

\* the empty dict {}
EmptyDict == [x \in {} |-> None]

Obj(o) == [type |-> "object", obj |-> o]

Arr == [type |-> "array"]

Invalid == [type |-> "invalid"]

Text(w, j) == [wrap |-> w, json |-> j]

\* numerals float() accepts
Numerals == {"0.0", "0.5", "0.7", "0.8", "0.95"}

\* the JSON object an agent is told to emit to request a tool
ToolCallObj(t) == [action |-> "call_tool", tool |-> t]

\* tools a model asks for: one every expert holds, one only the registry
\* (and the generic expert) holds, one nobody holds
RequestedTools == {"get_node_log", "hadoop_auto_operation", "no_such_tool"}

\* what the model may answer to an expert's prompt
ExpertTexts ==
    {Text("bare", Obj(ToolCallObj(t))) : t \in RequestedTools}
        \cup {Text("fenced", Obj(ToolCallObj("get_node_log"))),
              Text("prose", Invalid)}

\* what the model may answer to the classifier's prompt
ClassifierTexts ==
    {Text("bare", Obj([fault_type |-> ft, confidence |-> "0.95"])) :
        ft \in FaultTypeInputs}
        \cup {Text("fenced", Obj([fault_type |-> "datanode_down",
                                  confidence |-> "0.8",
                                  category |-> "hdfs",
                                  reasoning |-> "dead datanodes"])),
              Text("prose", Obj([fault_type |-> "yarn_config_error",
                                 confidence |-> "high"])),
              Text("prose", Obj([reasoning |-> "no idea"])),
              Text("prose", Obj(ToolCallObj("get_node_log"))),
              Text("bare", Obj([confidence |-> "0.5"])),
              Text("bare", Obj([fault_type |-> "datanode_down",
                                confidence |-> "high"])),
              Text("bare", Arr),
              Text("prose", Invalid)}

\* what the model may answer to the Discussion Agent's prompt
DiscussionTexts ==
    {Text("bare", Obj([consensus |-> TRUE, final_root_cause |-> "merged",
                       final_evidence |-> <<"e1">>,
                       final_fix_steps |-> <<"s1">>,
                       confidence |-> "0.95"])),
     Text("fenced", Obj([consensus |-> FALSE, final_root_cause |-> "merged",
                         conflicts |-> <<"c1">>])),
     Text("prose", Obj([consensus |-> FALSE, final_root_cause |-> "merged",
                        final_evidence |-> <<"e1">>,
                        final_fix_steps |-> <<"s1">>,
                        confidence |-> "0.95"])),
     Text("bare", Obj([final_root_cause |-> "merged",
                       confidence |-> "high"])),
     Text("bare", Arr),
     Text("prose", Invalid)}

Responses(a) ==
    CASE a = "classifier" -> ClassifierTexts
      [] a = "discussion" -> DiscussionTexts
      [] OTHER -> ExpertTexts

(* A diagnosis written in prose is represented by what the regular         *)
(* expressions of an expert's _extract_* helpers find in it (`found'):     *)
(*   root_cause  group(1) of the first matching root-cause pattern         *)
(*   evidence    the list re.findall returns for the first evidence        *)
(*               pattern with matches                                      *)
(*   fix_steps   the same for the fix steps; the numbered-list pattern has *)
(*               two groups, so its matches are tuples                     *)
(*   confidence  the number float(group(1)) gives, in hundredths           *)
(* A key is absent when no pattern matches.  A matched string is written   *)
(* as its body with the white space around it.                             *)
Matched(lead, body, trail) == [lead |-> lead, body |-> body, trail |-> trail]

Prose(found) == [wrap |-> "prose", json |-> Invalid, found |-> found]

\* diagnoses in prose, as the model writes them for an expert
DiagnosisTexts ==
    {Prose([root_cause |-> Matched(0, "datanode dn1 lost", 1),
            evidence |-> <<Matched(0, "no heartbeat from dn1", 0),
                           Matched(0, "dead datanodes: 1", 2)>>,
            fix_steps |-> <<<<"1.", Matched(0, "restart dn1", 0)>>,
                            <<"2.", Matched(0, "check the network", 1)>>>>,
            confidence |-> 8500]),
     Prose([root_cause |-> Matched(1, "", 0),
            evidence |-> [i \in 1..6 |-> Matched(0, "log line", 0)],
            fix_steps |-> [i \in 1..11 |-> Matched(0, "step", 1)],
            confidence |-> 15000]),
     Prose([confidence |-> 90])}

\* the answers tried in a stand-alone run: for an expert also the request
\* of a second tool that every expert holds, and diagnoses in prose
RunResponses(a) ==
    IF a \in Experts
    THEN Responses(a)
             \cup {Text("bare", Obj(ToolCallObj("search_logs_by_keyword")))}
             \cup DiagnosisTexts
    ELSE Responses(a)

(* ---------------- output parsers ---------------- *)

Ok(v) == [ok |-> TRUE, value |-> v]

Raise(e) == [ok |-> FALSE, exc |-> e]

\* response.strip() followed by the removal of ```json / ``` markers
StripCodeFence(t) == IF t.wrap = "fenced" THEN Text("bare", t.json) ELSE t

\* json.loads of a stripped text: fails (JSONDecodeError) unless the whole
\* text is one JSON document
json_loads(t) ==
    IF t.wrap = "bare" /\ t.json.type # "invalid"
    THEN Ok(t.json)
    ELSE Raise("JSONDecodeError")

\* json.loads(re.search(r'\{.*\}', text, re.DOTALL).group()): the brace
\* group of the text, when there is one and it is a JSON object
SearchJsonObject(t) ==
    IF t.json.type = "object" THEN Ok(t.json.obj) ELSE Raise("no match")

\* the classifier's default result after a parse failure
ClassifierDefault ==
    [fault_type |-> "unknown", confidence |-> "0.0", category |-> "generic",
     reasoning |-> "parse failed: JSONDecodeError"]

\* FaultClassifierAgent.parse_output
ClassifierParseOutput(response) ==
    LET t == StripCodeFence(response)
        loaded == json_loads(t)
    IN IF loaded.ok
       THEN IF loaded.value.type # "object"
            THEN Raise("ValueError")
            ELSE LET d0 == loaded.value.obj
                 IN IF "fault_type" \notin DOMAIN d0
                    THEN Raise("ValueError")
                    ELSE LET d1 == IF "confidence" \notin DOMAIN d0
                                   THEN Put(d0, "confidence", "0.5")
                                   ELSE d0
                             d2 == IF "category" \notin DOMAIN d1
                                   THEN Put(d1, "category",
                                        IF d1.fault_type
                                             \in DOMAIN FAULT_TYPE_LIBRARY
                                        THEN FAULT_TYPE_LIBRARY[d1.fault_type]
                                        ELSE "generic")
                                   ELSE d1
                         IN IF d2.confidence \notin Numerals
                            THEN Raise("ValueError")
                            ELSE Ok([fault_type |-> d2.fault_type,
                                     confidence |-> d2.confidence,
                                     category |-> d2.category,
                                     related_faults |->
                                         Get(d2, "related_faults", None),
                                     reasoning |->
                                         Get(d2, "reasoning", None)])
       ELSE LET found == SearchJsonObject(t)
            IN IF found.ok THEN Ok(found.value) ELSE Ok(ClassifierDefault)

\* the Discussion Agent's default result after a parse failure
DiscussionDefault ==
    [consensus |-> TRUE, final_root_cause |-> "parse failed",
     final_evidence |-> <<"parse failed">>,
     final_fix_steps |-> <<"see expert results">>,
     confidence |-> "0.5", conflicts |-> None, compound_faults |-> None]

\* DiscussionAgent.parse_output
DiscussionParseOutput(response) ==
    LET t == StripCodeFence(response)
        loaded == json_loads(t)
    IN IF loaded.ok
       THEN IF loaded.value.type # "object"
            THEN Raise("TypeError")
            ELSE LET d == loaded.value.obj
                     conf == Get(d, "confidence", "0.8")
                 IN IF conf \notin Numerals
                    THEN Raise("ValueError")
                    ELSE Ok([consensus |-> Get(d, "consensus", TRUE),
                             final_root_cause |->
                                 Get(d, "final_root_cause", "unspecified"),
                             final_evidence |->
                                 Get(d, "final_evidence", <<>>),
                             final_fix_steps |->
                                 Get(d, "final_fix_steps", <<>>),
                             confidence |-> conf,
                             conflicts |-> Get(d, "conflicts", None),
                             compound_faults |->
                                 Get(d, "compound_faults", None),
                             expert_agreement |->
                                 Get(d, "expert_agreement", None)])
       ELSE Ok(DiscussionDefault)

\* HDFSExpertAgent._try_parse_tool_call: found = FALSE stands for None
TryParseToolCall(response) ==
    IF ~(response.wrap = "bare" /\ response.json.type = "object")
    THEN [found |-> FALSE]
    ELSE LET data == response.json.obj
         IN IF Get(data, "action", None) = "call_tool"
                /\ Get(data, "tool", None) # None
            THEN [found |-> TRUE,
                  call |-> [action |-> "call_tool", tool |-> data.tool,
                            args |-> Get(data, "args", "{}")]]
            ELSE [found |-> FALSE]

\* s.strip()
Strip(s) == s.body

\* xs[:n]
Prefix(xs, n) == SubSeq(xs, 1, IF Len(xs) < n THEN Len(xs) ELSE n)

\* what the helpers find in a model text
FoundIn(response) == Get(response, "found", EmptyDict)

\* _extract_root_cause
ExtractRootCause(found) ==
    IF "root_cause" \in DOMAIN found
    THEN Strip(found.root_cause)
    ELSE "unspecified"

\* "matches[:5]" of _extract_evidence
MaxEvidence == 5

\* _extract_evidence
ExtractEvidence(found) ==
    LET matches == Get(found, "evidence", <<>>)
        evidence == [i \in 1..Len(Prefix(matches, MaxEvidence)) |->
                        Strip(matches[i])]
    IN IF Len(evidence) > 0 THEN evidence ELSE <<"see diagnosis text">>

\* "matches[:10]" of _extract_fix_steps
MaxFixSteps == 10

\* isinstance(m, tuple), for a match of re.findall
IsTuple(m) == DOMAIN m = 1..2

\* _extract_fix_steps
ExtractFixSteps(found) ==
    LET matches == Get(found, "fix_steps", <<>>)
        steps == [i \in 1..Len(Prefix(matches, MaxFixSteps)) |->
                     IF IsTuple(matches[1]) THEN Strip(matches[i][2])
                     ELSE Strip(matches[i])]
    IN IF Len(steps) > 0 THEN steps ELSE <<"see diagnosis text">>

\* default of _extract_confidence, in hundredths
DefaultConfidence(a) == IF a = "generic_expert" THEN 70 ELSE 80

\* the conversion of a matched number without min and max
NormalizeConfidenceNoClamp(c) == IF c > 100 THEN c \div 100 ELSE c

\* the conversion of a matched number in _extract_confidence, in
\* hundredths: a value above 1.0 is taken as a percentage, and the result
\* is min(1.0, max(0.0, confidence))
NormalizeConfidence(c) ==
    LET confidence == IF c > 100 THEN c \div 100 ELSE c
        lower == IF confidence < 0 THEN 0 ELSE confidence
    IN IF lower > 100 THEN 100 ELSE lower

\* _extract_confidence
ExtractConfidence(a, found) ==
    IF "confidence" \in DOMAIN found
    THEN NormalizeConfidence(found.confidence)
    ELSE DefaultConfidence(a)

\* the dict an expert's parse_output builds from a diagnosis text
DiagnosisOf(a, response) ==
    [expert_name |-> a, diagnosis_text |-> response,
     root_cause |-> ExtractRootCause(FoundIn(response)),
     evidence |-> ExtractEvidence(FoundIn(response)),
     fix_steps |-> ExtractFixSteps(FoundIn(response)),
     confidence |-> ExtractConfidence(a, FoundIn(response))]

\* HDFSExpertAgent.parse_output
HdfsParseOutput(response) ==
    IF TryParseToolCall(response).found
    THEN Ok(TryParseToolCall(response).call)
    ELSE Ok(DiagnosisOf("hdfs_expert", response))

\* parse_output of the YARN expert (yarn_expert.py is not part of the sources)
YarnParseOutput(response) ==
    IF TryParseToolCall(response).found
    THEN Ok(TryParseToolCall(response).call)
    ELSE Ok(DiagnosisOf("yarn_expert", response))

\* parse_output of the MapReduce, network and generic experts
PlainParseOutput(a, response) == Ok(DiagnosisOf(a, response))

\* self.parse_output(response) of agent a
parse_output(a, response) ==
    CASE a = "classifier" -> ClassifierParseOutput(response)
      [] a = "discussion" -> DiscussionParseOutput(response)
      [] a = "hdfs_expert" -> HdfsParseOutput(response)
      [] a = "yarn_expert" -> YarnParseOutput(response)
      [] OTHER -> PlainParseOutput(a, response)

(* ---------------- ContextCollector ---------------- *)

(* Values found in the metrics are tagged with their Python type: a number  *)
(* is PyNum(n), None is PyNone, a string is PyStr(its characters).  A       *)
(* metric entry is a dict (a record with keys such as heartbeat_value) or,  *)
(* when the collector delivered something else, one of these tagged values. *)
PyNum(n) == [t |-> "num", n |-> n]

PyNone == [t |-> "none"]

PyStr(cs) == [t |-> "str", s |-> cs]

\* isinstance(x, dict), for a metric entry
IsDict(x) == "t" \notin DOMAIN x

\* isinstance(v, (int, float))
IsNum(v) == v.t = "num"

DigitChars == {"0", "1", "2", "3", "4", "5", "6", "7", "8", "9"}

DigitValue(c) ==
    CASE c = "0" -> 0 [] c = "1" -> 1 [] c = "2" -> 2 [] c = "3" -> 3
      [] c = "4" -> 4 [] c = "5" -> 5 [] c = "6" -> 6 [] c = "7" -> 7
      [] c = "8" -> 8 [] c = "9" -> 9

\* int() of the run of digits of cs that starts at position i
RECURSIVE DigitRun(_, _, _)
DigitRun(cs, i, acc) ==
    IF i > Len(cs) \/ cs[i] \notin DigitChars THEN acc
    ELSE DigitRun(cs, i + 1, acc * 10 + DigitValue(cs[i]))

\* re.search(r'(\d+)', value_str): the first run of digits, if there is one
SearchDigits(cs) ==
    LET starts == {i \in 1..Len(cs) : cs[i] \in DigitChars}
    IN IF starts = {} THEN [found |-> FALSE]
       ELSE LET first == CHOOSE i \in starts : \A j \in starts : i <= j
            IN [found |-> TRUE, n |-> DigitRun(cs, first, 0)]

\* str(v) of a metric value that is not a number
StrOf(v) ==
    CASE v.t = "str" -> v.s
      [] v.t = "none" -> <<"N", "o", "n", "e">>

\* the value _extract_cluster_state stores for a live_datanodes or
\* dead_datanodes entry: heartbeat_value, else jmx_value, else a numeric
\* value, else the first number in str(value), else the initial 0
DatanodeCountOf(metric) ==
    IF ~IsDict(metric) THEN Raise("AttributeError")
    ELSE IF "heartbeat_value" \in DOMAIN metric
    THEN Ok(metric.heartbeat_value)
    ELSE IF "jmx_value" \in DOMAIN metric THEN Ok(metric.jmx_value)
    ELSE IF "value" \in DOMAIN metric /\ IsNum(metric.value)
    THEN Ok(metric.value)
    ELSE LET found == SearchDigits(StrOf(Get(metric, "value",
                                              PyStr(<<"0">>))))
         IN IF found.found THEN Ok(PyNum(found.n)) ELSE Ok(PyNum(0))

\* the "storage" part of the cluster state: remaining_storage.raw_value is
\* in GB and is stored in bytes (raw_value * 1024 ** 3); the total is
\* derived from the used percentage.  The byte counts are written here in
\* units of 1024 ** 3 bytes.
StorageOf(nn) ==
    LET rem_metric == Get(nn, "remaining_storage", EmptyDict)
        remaining ==
            IF "raw_value" \in DOMAIN rem_metric
                  /\ rem_metric.raw_value # PyNone
            THEN rem_metric.raw_value.n
            ELSE 0
        use_metric == Get(nn, "storage_usage", EmptyDict)
        pct == IF "raw_value" \in DOMAIN use_metric
               THEN use_metric.raw_value.n ELSE 0
    IN IF remaining > 0 /\ pct > 0 /\ pct < 100
       THEN [total |-> (remaining * 100) \div (100 - pct),
             used |-> (remaining * 100) \div (100 - pct) - remaining,
             remaining |-> remaining]
       ELSE [total |-> 0, used |-> 0, remaining |-> remaining]

\* the state _extract_cluster_state starts from
InitialClusterState ==
    [datanode_count |-> [live |-> 0, dead |-> 0, total |-> 0],
     hdfs_status |-> "unknown",
     storage |-> [total |-> 0, used |-> 0, remaining |-> 0]]

\* the status taken from the live count alone
HdfsStatusLiveOnly(live, dead) == IF live > 0 THEN "healthy" ELSE "unknown"

\* the "hdfs_status" of the cluster state: the if / elif chain on the dead
\* and live counts, with "unknown" kept when no branch sets it
HdfsStatus(live, dead) ==
    IF dead > 0 THEN "degraded"
    ELSE IF live > 0 /\ live = live + dead THEN "healthy"
    ELSE "unknown"

\* ContextCollector._extract_cluster_state: the state, or the exception
\* raised on metrics of an unexpected shape
ExtractClusterState(metrics) ==
    IF ~IsDict(metrics) THEN Raise("TypeError")
    ELSE IF "namenode" \notin DOMAIN metrics THEN Ok(InitialClusterState)
    ELSE IF ~IsDict(metrics.namenode) THEN Raise("AttributeError")
    ELSE IF Get(metrics.namenode, "status", None) = "error"
    THEN Ok(InitialClusterState)
    ELSE LET nn == Get(metrics.namenode, "metrics", EmptyDict)
             live == IF "live_datanodes" \in DOMAIN nn
                     THEN DatanodeCountOf(nn.live_datanodes)
                     ELSE Ok(PyNum(0))
             dead == IF "dead_datanodes" \in DOMAIN nn
                     THEN DatanodeCountOf(nn.dead_datanodes)
                     ELSE Ok(PyNum(0))
         IN IF ~live.ok THEN live
            ELSE IF ~dead.ok THEN dead
            ELSE IF ~IsNum(live.value) \/ ~IsNum(dead.value)
            THEN Raise("TypeError")
            ELSE LET l == live.value.n
                     d == dead.value.n
                 IN Ok([datanode_count |->
                            [live |-> l, dead |-> d, total |-> l + d],
                        hdfs_status |-> HdfsStatus(l, d),
                        storage |-> StorageOf(nn)])

\* one try block around the three steps: the first failure ends the
\* collection and the later fields keep their initial {}
CollectAllContextOneTry(logs, metrics) ==
    LET m == IF logs.ok /\ metrics.ok THEN metrics.value ELSE EmptyDict
        state == IF logs.ok /\ metrics.ok THEN ExtractClusterState(m)
                 ELSE Raise("skipped")
    IN [timestamp |-> "now",
        logs |-> IF logs.ok THEN logs.value ELSE EmptyDict,
        metrics |-> m,
        cluster_state |-> IF state.ok THEN state.value ELSE EmptyDict]

\* ContextCollector.collect_all_context, given what read_all_cluster_logs
\* (with the load and save of the reader state) and collect_all_metrics
\* return or raise: each of the three steps has its own try/except
CollectAllContext(logs, metrics) ==
    LET m == IF metrics.ok THEN metrics.value ELSE EmptyDict
        state == ExtractClusterState(m)
    IN [timestamp |-> "now",
        logs |-> IF logs.ok THEN logs.value ELSE EmptyDict,
        metrics |-> m,
        cluster_state |-> IF state.ok THEN state.value ELSE EmptyDict]

\* a NameNode entry of the metrics with the given live and dead entries
NameNodeMetrics(live, dead) ==
    [status |-> "normal",
     metrics |-> [live_datanodes |-> live, dead_datanodes |-> dead,
                  remaining_storage |-> [raw_value |-> PyNum(2)],
                  storage_usage |-> [raw_value |-> PyNum(50)]]]

\* what collect_all_metrics returns when it does not raise
CollectedMetrics ==
    [namenode |->
        NameNodeMetrics(
            [heartbeat_value |-> PyNum(2), jmx_value |-> PyNum(2),
             value |-> PyStr(<<"2", " ", "/", " ", "2">>)],
            [heartbeat_value |-> PyNum(1), jmx_value |-> PyNum(1),
             value |-> PyStr(<<"1", " ", "/", " ", "1">>)])]

\* what read_all_cluster_logs returns when it does not raise
CollectedLogs == [namenode |-> "log text"]

\* outcomes of the log source
LogSources == {Ok(CollectedLogs), Ok(EmptyDict), Raise("IOError")}

\* metrics with every combination of live and dead DataNode counts, given
\* as the heartbeat and the JMX figure
CountGridMetrics ==
    {Ok([namenode |->
            NameNodeMetrics([heartbeat_value |-> PyNum(l)],
                            [jmx_value |-> PyNum(d)])]) :
        l \in 0..MaxDatanodes, d \in 0..MaxDatanodes}

\* outcomes of the metrics source: an exception, well-formed metrics of
\* several shapes, and metrics on which the state derivation raises
MetricsSources ==
    {Raise("ConnectionError"),
     Ok(CollectedMetrics),
     Ok(EmptyDict),
     Ok([namenode |-> [status |-> "error"]]),
     Ok([namenode |-> [status |-> "normal"]]),
     Ok([namenode |->
            NameNodeMetrics([heartbeat_value |-> PyNum(3)],
                            [heartbeat_value |-> PyNum(0)])]),
     Ok([namenode |->
            NameNodeMetrics([jmx_value |-> PyNum(1)],
                            [value |-> PyNum(2)])]),
     Ok([namenode |->
            NameNodeMetrics([value |-> PyStr(<<"1", "2", " ", "u", "p">>)],
                            [value |-> PyStr(<<"n", "/", "a">>)])]),
     Ok([namenode |->
            NameNodeMetrics([status |-> "abnormal"], [value |-> PyNone])]),
     Ok([namenode |->
            NameNodeMetrics(PyStr(<<"3">>), [heartbeat_value |-> PyNum(0)])]),
     Ok([namenode |->
            NameNodeMetrics([heartbeat_value |-> PyNone],
                            [heartbeat_value |-> PyNum(0)])]),
     Ok([namenode |-> PyNone]),
     Ok(PyNone)}
        \cup CountGridMetrics

(* ---------------- inputs of run ---------------- *)

\* the input dict the orchestrator hands to the agents it runs, as far as
\* run itself reads it: it has no "tool_results" key
SharedInput == [user_query |-> "why is the cluster slow"]

\* a tool_results entry recorded before the run
PriorToolResult ==
    [tool |-> "get_cluster_logs", args |-> "{}", result |-> "earlier output"]

\* input dicts a caller passes to a stand-alone run: without tool_results,
\* with an empty tool_results list, with a list that holds an entry
RunInputs ==
    {SharedInput,
     Put(SharedInput, "tool_results", <<>>),
     Put(SharedInput, "tool_results", <<PriorToolResult>>)}

\* the "tool call results" part of HDFSExpertAgent.build_prompt: one item
\* per entry of input_data["tool_results"], in list order
HdfsToolSection(input) ==
    LET trs == Get(input, "tool_results", <<>>)
    IN [i \in 1..Len(trs) |->
           [tool |-> Get(trs[i], "tool", "unknown_tool"),
            result |-> Get(trs[i], "result", None)]]

\* the same part of the YARN expert's prompt (yarn_expert.py is not part of
\* the sources)
YarnToolSection(input) ==
    LET trs == Get(input, "tool_results", <<>>)
    IN [i \in 1..Len(trs) |->
           [tool |-> Get(trs[i], "tool", "unknown_tool"),
            result |-> Get(trs[i], "result", None)]]

\* what self.build_prompt(current_input) of agent a shows of the tool
\* results: the other agents' prompts do not read "tool_results"
build_prompt_tools(a, input) ==
    CASE a = "hdfs_expert" -> HdfsToolSection(input)
      [] a = "yarn_expert" -> YarnToolSection(input)
      [] OTHER -> <<>>

(* ---------------- state ---------------- *)

VARIABLES
    mode,                  \* entry point exercised by the behaviour
    max_tool_calls,        \* the max_tool_calls argument of the runs
    output_format,         \* the output_format argument of diagnose
    log_source,            \* what reading the cluster logs returns or raises
    metrics_source,        \* what collect_all_metrics returns or raises
    input_at_call,         \* the caller's input dict when run was called
    agent_pc,              \* per agent: position of its run
    tool_call_count,       \* per agent: local tool_call_count of run
    model_calls,           \* per agent: generate_with_role calls made
    tool_invocations,      \* per agent: tool functions invoked
    pending_tool,          \* per agent: the parsed tool request being served
    tool_results,          \* per agent: the entries its run has appended to
                           \* current_input["tool_results"]
    input_data,            \* the caller's input dict, as it is now
    last_prompt,           \* per agent: the tool-result part of the prompt of
                           \* its last model call
    agent_result,          \* per agent: the dict its run returned
    agent_error,           \* per agent: the exception its run raised
    last_response,         \* per agent: the model text of its last model call
    orch_pc,               \* stage of diagnose
    global_context,        \* the collected context
    classification_result, \* the classifier's result
    expert_names,          \* experts selected for the fan-out
    future,                \* per expert: state of its submitted work
    future_result,         \* per expert: value of its future
    collected,             \* experts whose future as_completed has yielded
    results,               \* the fan-out's results list
    discussion_input,      \* input dict of the Discussion Agent
    report,                \* the structured report
    returned,              \* value diagnose returned
    raised_by,             \* where the exception leaving diagnose came from
    fault_expert_mapping,  \* ExpertSelector.fault_expert_mapping
    select_log             \* calls made on the selector, with their results

agentVars ==
    <<agent_pc, tool_call_count, model_calls, tool_invocations, pending_tool,
      tool_results, agent_result, agent_error, last_response, input_data,
      last_prompt>>

orchVars ==
    <<orch_pc, global_context, classification_result, expert_names, future,
      future_result, collected, results, discussion_input, report, returned,
      raised_by>>

paramVars ==
    <<mode, max_tool_calls, output_format, log_source, metrics_source,
      input_at_call>>

selVars == <<fault_expert_mapping, select_log>>

vars == <<paramVars, agentVars, orchVars, selVars>>

\* "response" before the first model call of a run
NoText == [wrap |-> "none", json |-> [type |-> "invalid"]]

Terminal == {"returned", "raised"}

Init ==
    /\ mode \in {"diagnose", "run", "select", "collect"}
    /\ max_tool_calls \in
           IF mode = "run" THEN 0..MaxN ELSE {DefaultMaxToolCalls}
    /\ output_format \in
           IF mode = "diagnose" THEN {"text", "structured"} ELSE {"text"}
    /\ log_source \in
           CASE mode = "collect" -> LogSources
             [] mode = "diagnose" -> {Ok(CollectedLogs), Raise("IOError")}
             [] OTHER -> {Ok(CollectedLogs)}
    /\ metrics_source \in
           CASE mode = "collect" -> MetricsSources
             [] mode = "diagnose" ->
                    {Ok(CollectedMetrics), Raise("ConnectionError")}
             [] OTHER -> {Ok(CollectedMetrics)}
    /\ input_at_call \in IF mode = "run" THEN RunInputs ELSE {SharedInput}
    /\ input_data = input_at_call
    /\ last_prompt = [a \in Agents |-> <<>>]
    /\ agent_pc \in
           IF mode = "run"
           THEN {[x \in Agents |-> IF x = a THEN "call_model" ELSE "idle"] :
                    a \in Agents}
           ELSE {[x \in Agents |-> "idle"]}
    /\ tool_call_count = [a \in Agents |-> 0]
    /\ model_calls = [a \in Agents |-> 0]
    /\ tool_invocations = [a \in Agents |-> 0]
    /\ pending_tool = [a \in Agents |-> EmptyDict]
    /\ tool_results = [a \in Agents |-> <<>>]
    /\ agent_result = [a \in Agents |-> EmptyDict]
    /\ agent_error = [a \in Agents |-> None]
    /\ last_response = [a \in Agents |-> NoText]
    /\ orch_pc = IF mode = "diagnose" THEN "COLLECT_CONTEXT" ELSE "OFF"
    /\ global_context = EmptyDict
    /\ classification_result = EmptyDict
    /\ expert_names = <<>>
    /\ future = [e \in Experts |-> "none"]
    /\ future_result = [e \in Experts |-> EmptyDict]
    /\ collected = {}
    /\ results = <<>>
    /\ discussion_input = EmptyDict
    /\ report = EmptyDict
    /\ returned = EmptyDict
    /\ raised_by = None
    /\ fault_expert_mapping = BuildFaultExpertMapping
    /\ select_log = <<>>

(* ---------------- BaseAgent.run ---------------- *)

\* current_input of the run of agent a: a shallow copy of the caller's
\* dict, so a "tool_results" list the caller put there is the very list run
\* appends to; without one the list is run's own
current_input(a) ==
    IF "tool_results" \in DOMAIN input_data \/ tool_results[a] = <<>>
    THEN input_data
    ELSE Put(input_data, "tool_results", tool_results[a])

\* the limit test off by one: one request too many is let through
LimitExceededOffByOne(count, limit) == count > limit + 1

\* the limit test left out
LimitNeverExceeded(count, limit) == FALSE

\* the test "tool_call_count > max_tool_calls" of run
LimitExceeded(count, limit) == count > limit

\* the tool looked up before the limit is tested: a request for a tool the
\* agent does not hold goes on to _execute_tool whatever the count is
LimitStopsKnownToolsOnly(a, request, count, limit) ==
    LimitExceeded(count, limit) /\ Get(request, "tool", None) \in AgentTools(a)

\* whether run of agent a returns the limit-exceeded result for a parsed
\* tool request: the test is made before parsed.get("tool") is read and
\* before _execute_tool is called, so the request plays no part in it
LimitStops(a, request, count, limit) == LimitExceeded(count, limit)

\* the dict run returns when the limit is exceeded
LimitMarker(response) ==
    [error |-> "tool call limit exceeded", last_response |-> response]

\* isinstance(parsed, dict) and parsed.get("action") == "call_tool"
IsToolRequest(parsed) == Get(parsed, "action", None) = "call_tool"

\* run, when generate_with_role raises: the exception leaves run
ModelCallFails(a) ==
    /\ agent_pc[a] = "call_model"
    /\ model_calls[a] < MaxModelCalls
    /\ model_calls' = [model_calls EXCEPT ![a] = @ + 1]
    /\ agent_pc' = [agent_pc EXCEPT ![a] = "raised"]
    /\ agent_error' = [agent_error EXCEPT ![a] = "RuntimeError: API call failed"]
    /\ last_prompt' =
           [last_prompt EXCEPT ![a] = build_prompt_tools(a, current_input(a))]
    /\ UNCHANGED <<tool_call_count, tool_invocations, pending_tool,
                   tool_results, agent_result, last_response, input_data>>
    /\ UNCHANGED <<paramVars, orchVars, selVars>>

\* run, from build_prompt to the decision on the parsed output, when the
\* model answers `response'
ModelAnswers(a, response) ==
    LET p == parse_output(a, response)
        count == tool_call_count[a] + 1
    IN /\ agent_pc[a] = "call_model"
       /\ model_calls[a] < MaxModelCalls
       /\ model_calls' = [model_calls EXCEPT ![a] = @ + 1]
       /\ last_response' = [last_response EXCEPT ![a] = response]
       /\ last_prompt' =
              [last_prompt EXCEPT
                  ![a] = build_prompt_tools(a, current_input(a))]
       /\ IF ~p.ok
          THEN /\ agent_pc' = [agent_pc EXCEPT ![a] = "raised"]
               /\ agent_error' = [agent_error EXCEPT ![a] = p.exc]
               /\ UNCHANGED <<tool_call_count, pending_tool, agent_result>>
          ELSE IF IsToolRequest(p.value)
          THEN /\ tool_call_count' = [tool_call_count EXCEPT ![a] = count]
               /\ IF LimitStops(a, p.value, count, max_tool_calls)
                  THEN /\ agent_pc' = [agent_pc EXCEPT ![a] = "returned"]
                       /\ agent_result' =
                              [agent_result EXCEPT ![a] = LimitMarker(response)]
                       /\ UNCHANGED pending_tool
                  ELSE /\ agent_pc' = [agent_pc EXCEPT ![a] = "exec_tool"]
                       /\ pending_tool' = [pending_tool EXCEPT ![a] = p.value]
                       /\ UNCHANGED agent_result
               /\ UNCHANGED agent_error
          ELSE /\ agent_pc' = [agent_pc EXCEPT ![a] = "returned"]
               /\ agent_result' = [agent_result EXCEPT ![a] = p.value]
               /\ UNCHANGED <<tool_call_count, pending_tool, agent_error>>
       /\ UNCHANGED <<tool_invocations, tool_results, input_data>>
       /\ UNCHANGED <<paramVars, orchVars, selVars>>

\* the entry run appends to tool_results
ToolResult(request) ==
    [tool |-> request.tool, args |-> Get(request, "args", "{}"),
     result |-> "tool output"]

\* the write-back that keeps only the newest entry:
\* current_input["tool_results"] = [entry]
AppendToolResultLatestOnly(list, entry) == <<entry>>

\* tool_results.append(entry)
AppendToolResult(list, entry) == Append(list, entry)

\* the caller's dict after run has appended an entry to its working list:
\* only a list the caller's dict already held is affected, the key set by
\* current_input["tool_results"] = ... goes to run's copy
InputAfterAppend(input, entry) ==
    IF "tool_results" \in DOMAIN input
    THEN [input EXCEPT !.tool_results = AppendToolResult(@, entry)]
    ELSE input

\* _execute_tool and the write-back of its result in run: an unknown tool
\* raises ValueError, a failing tool RuntimeError, both leave run
ExecuteTool(a) ==
    /\ agent_pc[a] = "exec_tool"
    /\ IF pending_tool[a].tool \notin AgentTools(a)
       THEN /\ agent_pc' = [agent_pc EXCEPT ![a] = "raised"]
            /\ agent_error' = [agent_error EXCEPT ![a] = "ValueError: unknown tool"]
            /\ UNCHANGED <<tool_invocations, tool_results, input_data>>
       ELSE /\ tool_invocations' = [tool_invocations EXCEPT ![a] = @ + 1]
            /\ \/ /\ agent_pc' = [agent_pc EXCEPT ![a] = "raised"]
                  /\ agent_error' =
                         [agent_error EXCEPT ![a] = "RuntimeError: tool failed"]
                  /\ UNCHANGED <<tool_results, input_data>>
               \/ /\ agent_pc' = [agent_pc EXCEPT ![a] = "call_model"]
                  /\ tool_results' =
                         [tool_results EXCEPT
                             ![a] = AppendToolResult(
                                        @, ToolResult(pending_tool[a]))]
                  /\ input_data' =
                         InputAfterAppend(input_data,
                                          ToolResult(pending_tool[a]))
                  /\ UNCHANGED agent_error
    /\ UNCHANGED <<tool_call_count, model_calls, pending_tool, agent_result,
                   last_response, last_prompt>>
    /\ UNCHANGED <<paramVars, orchVars, selVars>>

(* ---------------- FaultOrchestrator ---------------- *)

\* a registry in which no network expert was created
RegisteredExpertsWithoutNetwork ==
    {"hdfs_expert", "yarn_expert", "mapreduce_expert", "generic_expert"}

\* keys of self.experts after _init_experts
RegisteredExperts ==
    {"hdfs_expert", "yarn_expert", "mapreduce_expert", "network_expert",
     "generic_expert"}

\* the set of names in a list
Range(xs) == {xs[i] : i \in 1..Len(xs)}

\* step 1 of _diagnose_structured, up to the start of the classifier's run
CollectContext ==
    /\ orch_pc = "COLLECT_CONTEXT"
    /\ global_context' = CollectAllContext(log_source, metrics_source)
    /\ agent_pc' = [agent_pc EXCEPT !["classifier"] = "call_model"]
    /\ orch_pc' = "CLASSIFY"
    /\ UNCHANGED <<tool_call_count, model_calls, tool_invocations,
                   pending_tool, tool_results, agent_result, agent_error,
                   last_response, input_data, last_prompt>>
    /\ UNCHANGED <<classification_result, expert_names, future, future_result,
                   collected, results, discussion_input, report, returned,
                   raised_by>>
    /\ UNCHANGED <<paramVars, selVars>>

\* step 2: self.classifier.run returns or raises
ClassifierReturns ==
    /\ orch_pc = "CLASSIFY"
    /\ agent_pc["classifier"] \in Terminal
    /\ IF agent_pc["classifier"] = "raised"
       THEN /\ orch_pc' = "RAISED"
            /\ raised_by' = "classifier"
            /\ UNCHANGED classification_result
       ELSE /\ orch_pc' = "SELECT_EXPERTS"
            /\ classification_result' = agent_result["classifier"]
            /\ UNCHANGED raised_by
    /\ UNCHANGED <<global_context, expert_names, future, future_result,
                   collected, results, discussion_input, report, returned>>
    /\ UNCHANGED <<paramVars, agentVars, selVars>>

\* classification_result.get("fault_type", "unknown")
FaultTypeOf(classification) == Get(classification, "fault_type", "unknown")

\* step 3 and the submissions of step 4: the experts are selected and one
\* _call_expert per selected name is submitted to the pool
SelectExperts ==
    LET names == select_experts(fault_expert_mapping,
                                FaultTypeOf(classification_result), TRUE)
    IN /\ orch_pc = "SELECT_EXPERTS"
       /\ expert_names' = names
       /\ future' = [e \in Experts |->
                        IF e \in Range(names) THEN "running" ELSE "none"]
       /\ agent_pc' = [a \in Agents |->
                          IF a \in Range(names) \cap RegisteredExperts
                          THEN "call_model"
                          ELSE agent_pc[a]]
       /\ orch_pc' = "FAN_OUT"
       /\ UNCHANGED <<tool_call_count, model_calls, tool_invocations,
                      pending_tool, tool_results, agent_result, agent_error,
                      last_response, input_data, last_prompt>>
       /\ UNCHANGED <<global_context, classification_result, future_result,
                      collected, results, discussion_input, report, returned,
                      raised_by>>
       /\ fault_expert_mapping' =
              MappingAfterSelect(fault_expert_mapping,
                                 FaultTypeOf(classification_result), TRUE)
       /\ UNCHANGED <<paramVars, select_log>>

\* the error marker of _call_expert and _call_experts_parallel
ErrorMarker(e, err) == [expert_name |-> e, error |-> err]

\* _call_expert whose except branch returns the result dict instead of an
\* error marker
CallExpertResultNoMarker(e, st, res, err) ==
    IF e \notin RegisteredExperts
    THEN ErrorMarker(e, "no such expert")
    ELSE Put(res, "expert_name", e)

\* the value _call_expert returns for expert e whose run ended in state st
\* with result res or exception err
CallExpertResult(e, st, res, err) ==
    IF e \notin RegisteredExperts
    THEN ErrorMarker(e, "no such expert")
    ELSE IF st = "returned"
    THEN Put(res, "expert_name", e)
    ELSE ErrorMarker(e, err)

\* _call_expert of expert e returns: its future completes
CallExpertReturns(e) ==
    /\ orch_pc = "FAN_OUT"
    /\ future[e] = "running"
    /\ e \in RegisteredExperts => agent_pc[e] \in Terminal
    /\ future' = [future EXCEPT ![e] = "done"]
    /\ future_result' =
           [future_result EXCEPT
               ![e] = CallExpertResult(e, agent_pc[e], agent_result[e],
                                       agent_error[e])]
    /\ UNCHANGED <<orch_pc, global_context, classification_result,
                   expert_names, collected, results, discussion_input, report,
                   returned, raised_by>>
    /\ UNCHANGED <<paramVars, agentVars, selVars>>

\* the loop body that appends a yielded result only when it is not an error
\* marker
AppendResultUnlessError(rs, r) ==
    IF "error" \in DOMAIN r THEN rs ELSE Append(rs, r)

\* results.append(result) of the as_completed loop
AppendResult(rs, r) == Append(rs, r)

\* one iteration of the as_completed loop: a completed future is yielded
\* and its result appended
CollectResult(e) ==
    /\ orch_pc = "FAN_OUT"
    /\ future[e] = "done"
    /\ e \notin collected
    /\ collected' = collected \cup {e}
    /\ results' = AppendResult(results, future_result[e])
    /\ UNCHANGED <<orch_pc, global_context, classification_result,
                   expert_names, future, future_result, discussion_input,
                   report, returned, raised_by>>
    /\ UNCHANGED <<paramVars, agentVars, selVars>>

\* the collection loop left after the first yielded future
FanOutCompleteFirst(names, done) == \E e \in Range(names) : e \in done

\* the as_completed loop and the with-block are left once every submitted
\* future has been yielded
FanOutComplete(names, done) == \A e \in Range(names) : e \in done

\* a filter that drops only the {expert_name, error} markers
IsValidResultMarkersOnly(r) == DOMAIN r # {"expert_name", "error"}

\* "error" not in r
IsValidResult(r) == "error" \notin DOMAIN r

\* the list comprehension that filters the expert results
ValidExpertResults(rs) == SelectSeq(rs, IsValidResult)

\* the short-circuit test left out
NoValidExpertsNever(valid) == FALSE

\* "if not valid_expert_results"
NoValidExperts(valid) == Len(valid) = 0

\* a total failure sends the run back to the selection of experts
StageAfterFanOutRetry(valid) ==
    IF Len(valid) = 0 THEN "SELECT_EXPERTS" ELSE "DISCUSS"

\* the stage that follows the fan-out: the short-circuit or the discussion
StageAfterFanOut(valid) == IF NoValidExperts(valid) THEN "FAIL" ELSE "DISCUSS"

\* the report returned when no expert result is valid
FailureReport(classification, rs) ==
    [error |-> "all experts failed", classification |-> classification,
     expert_results |-> rs]

\* _call_experts_parallel returns; the results are filtered and either the
\* failure report is built or the Discussion Agent's run is started
FanOutReturns ==
    LET valid == ValidExpertResults(results)
    IN /\ orch_pc = "FAN_OUT"
       /\ FanOutComplete(expert_names, collected)
       /\ IF NoValidExperts(valid)
          THEN /\ orch_pc' = StageAfterFanOut(valid)
               /\ report' = FailureReport(classification_result, results)
               /\ UNCHANGED <<discussion_input, agent_pc>>
          ELSE /\ orch_pc' = StageAfterFanOut(valid)
               /\ discussion_input' =
                      [fault_type |-> FaultTypeOf(classification_result),
                       expert_results |-> valid,
                       global_context |-> global_context]
               /\ agent_pc' = [agent_pc EXCEPT !["discussion"] = "call_model"]
               /\ UNCHANGED report
       /\ UNCHANGED <<tool_call_count, model_calls, tool_invocations,
                      pending_tool, tool_results, agent_result, agent_error,
                      last_response, input_data, last_prompt>>
       /\ UNCHANGED <<global_context, classification_result, expert_names,
                      future, future_result, collected, results, returned,
                      raised_by>>
       /\ UNCHANGED <<paramVars, selVars>>

\* the failure report is returned to diagnose
FailReturns ==
    /\ orch_pc = "FAIL"
    /\ orch_pc' = "FORMAT"
    /\ UNCHANGED <<global_context, classification_result, expert_names, future,
                   future_result, collected, results, discussion_input, report,
                   returned, raised_by>>
    /\ UNCHANGED <<paramVars, agentVars, selVars>>

\* DiscussionAgent.build_prompt: the prompt's parts, in order; one part per
\* expert result, in list order
DiscussionBuildPrompt(input) ==
    LET ers == Get(input, "expert_results", <<>>)
    IN [fault_type |-> Get(input, "fault_type", "unknown"),
        experts |->
            [i \in 1..Len(ers) |->
                [expert_name |-> Get(ers[i], "expert_name", "expert"),
                 diagnosis_text |-> Get(ers[i], "diagnosis_text", None),
                 root_cause |-> Get(ers[i], "root_cause", None),
                 evidence |-> Get(ers[i], "evidence", None),
                 fix_steps |-> Get(ers[i], "fix_steps", None),
                 confidence |-> Get(ers[i], "confidence", None)]],
        cluster_state |->
            Get(Get(input, "global_context", EmptyDict), "cluster_state", None)]

\* steps 5 and 6: self.discussion_agent.run returns or raises; the report is
\* built and returned to diagnose
DiscussionReturns ==
    /\ orch_pc = "DISCUSS"
    /\ agent_pc["discussion"] \in Terminal
    /\ IF agent_pc["discussion"] = "raised"
       THEN /\ orch_pc' = "RAISED"
            /\ raised_by' = "discussion"
            /\ UNCHANGED report
       ELSE /\ orch_pc' = "FORMAT"
            /\ report' =
                   [classification |-> classification_result,
                    expert_diagnoses |-> discussion_input.expert_results,
                    discussion |-> agent_result["discussion"],
                    global_context |->
                        [timestamp |-> Get(global_context, "timestamp", None),
                         cluster_state |->
                            Get(global_context, "cluster_state", EmptyDict)]]
            /\ UNCHANGED raised_by
    /\ UNCHANGED <<global_context, classification_result, expert_names, future,
                   future_result, collected, results, discussion_input,
                   returned>>
    /\ UNCHANGED <<paramVars, agentVars, selVars>>

(* ---------------- ResponseFormatter and diagnose ---------------- *)

\* the sections format_diagnosis_report renders for the expert diagnoses
ExpertSections(diagnoses) ==
    [i \in 1..Len(diagnoses) |->
        [section |-> "expert",
         expert_name |-> Get(diagnoses[i], "expert_name", "expert"),
         fields |->
            IF "diagnosis_text" \in DOMAIN diagnoses[i]
            THEN <<"diagnosis_text">>
            ELSE SelectSeq(<<"root_cause", "evidence", "fix_steps",
                             "confidence">>,
                           LAMBDA k : k \in DOMAIN diagnoses[i])]]

\* ResponseFormatter.format_diagnosis_report: the rendered sections, in order
format_diagnosis_report(rep) ==
    (IF "classification" \in DOMAIN rep
     THEN <<[section |-> "classification",
             fault_type |-> Get(rep.classification, "fault_type", "unknown"),
             confidence |-> Get(rep.classification, "confidence", "0.0"),
             category |-> Get(rep.classification, "category", "unknown")]>>
     ELSE <<>>)
    \o (IF "expert_diagnoses" \in DOMAIN rep
        THEN ExpertSections(rep.expert_diagnoses)
        ELSE <<>>)
    \o (IF "discussion" \in DOMAIN rep
        THEN <<[section |-> "discussion",
                consensus |-> Get(rep.discussion, "consensus", FALSE),
                final_root_cause |->
                    Get(rep.discussion, "final_root_cause", "unspecified"),
                confidence |-> Get(rep.discussion, "confidence", "0.0")]>>
        ELSE <<>>)
    \o (IF "global_context" \in DOMAIN rep
            /\ "cluster_state" \in DOMAIN rep.global_context
        THEN <<[section |-> "cluster_state",
                state |-> rep.global_context.cluster_state]>>
        ELSE <<>>)

\* the "{...:.1%}" rendering of the classification confidence raises when
\* the value is not a number
FormatRaises(rep) ==
    /\ "classification" \in DOMAIN rep
    /\ Get(rep.classification, "confidence", "0.0") \notin Numerals

\* diagnose, after _diagnose_structured has returned the report
Format ==
    /\ orch_pc = "FORMAT"
    /\ IF output_format = "structured"
       THEN /\ returned' = [kind |-> "report", value |-> report]
            /\ orch_pc' = "DONE"
            /\ UNCHANGED raised_by
       ELSE IF FormatRaises(report)
       THEN /\ orch_pc' = "RAISED"
            /\ raised_by' = "formatter"
            /\ UNCHANGED returned
       ELSE /\ returned' =
                   [kind |-> "text", value |-> format_diagnosis_report(report)]
            /\ orch_pc' = "DONE"
            /\ UNCHANGED raised_by
    /\ UNCHANGED <<global_context, classification_result, expert_names, future,
                   future_result, collected, results, discussion_input,
                   report>>
    /\ UNCHANGED <<paramVars, agentVars, selVars>>

(* ---------------- calls of the selector ---------------- *)

\* one select_experts(fault_type, include_related) call on the selector
SelectCall(fault_type, include_related) ==
    /\ mode = "select"
    /\ Len(select_log) < MaxSelectCalls
    /\ select_log' =
           Append(select_log,
                  [fault_type |-> fault_type,
                   include_related |-> include_related,
                   result |-> select_experts(fault_expert_mapping, fault_type,
                                             include_related)])
    /\ fault_expert_mapping' =
           MappingAfterSelect(fault_expert_mapping, fault_type,
                              include_related)
    /\ UNCHANGED <<paramVars, agentVars, orchVars>>

(* ---------------- calls of the collector ---------------- *)

\* one stand-alone collect_all_context() call
CollectCall ==
    /\ mode = "collect"
    /\ global_context = EmptyDict
    /\ global_context' = CollectAllContext(log_source, metrics_source)
    /\ UNCHANGED <<orch_pc, classification_result, expert_names, future,
                   future_result, collected, results, discussion_input,
                   report, returned, raised_by>>
    /\ UNCHANGED <<paramVars, agentVars, selVars>>

(* ---------------- specification ---------------- *)

Next ==
    \/ \E a \in Agents : ModelCallFails(a)
    \/ \E a \in Agents :
           \E response \in (IF mode = "run" THEN RunResponses(a)
                            ELSE Responses(a)) :
               ModelAnswers(a, response)
    \/ \E a \in Agents : ExecuteTool(a)
    \/ CollectContext
    \/ ClassifierReturns
    \/ SelectExperts
    \/ \E e \in Experts : CallExpertReturns(e)
    \/ \E e \in Experts : CollectResult(e)
    \/ FanOutReturns
    \/ FailReturns
    \/ DiscussionReturns
    \/ Format
    \/ \E ft \in FaultTypeInputs : \E b \in BOOLEAN : SelectCall(ft, b)
    \/ CollectCall

Spec == Init /\ [][Next]_vars

\* one stand-alone BaseAgent.run call
RunInit == Init /\ mode = "run"

RunNext ==
    \/ \E a \in Agents : ModelCallFails(a)
    \/ \E a \in Agents : \E response \in RunResponses(a) :
           ModelAnswers(a, response)
    \/ \E a \in Agents : ExecuteTool(a)

\* a stand-alone run in which every model call and every tool call returns
\* (or raises): the run is never left waiting
FairRunSpec == RunInit /\ [][RunNext]_vars /\ WF_vars(RunNext)

(* The fan-out of one diagnosis, in which the classifier has named         *)
(* datanode_down, so that the HDFS and the network expert are selected.    *)
(* _call_experts_parallel waits in as_completed and at the exit of the     *)
(* with-block of the pool; neither wait has a timeout.                     *)

\* the classifier's answer in the diagnoses of the fan-out specification
DatanodeDownText ==
    Text("fenced", Obj([fault_type |-> "datanode_down", confidence |-> "0.8",
                        category |-> "hdfs", reasoning |-> "dead datanodes"]))

FanOutInit ==
    /\ Init
    /\ mode = "diagnose"
    /\ output_format = "structured"
    /\ log_source.ok
    /\ metrics_source.ok

\* a step of the run of expert e: a model call or a tool call comes back
ExpertRunStep(e) ==
    \/ ModelCallFails(e)
    \/ \E response \in Responses(e) : ModelAnswers(e, response)
    \/ ExecuteTool(e)

\* a step of the thread that executes _diagnose_structured, up to the return
\* of the fan-out, and of the pool's bookkeeping
OrchestratorStep ==
    \/ CollectContext
    \/ ModelAnswers("classifier", DatanodeDownText)
    \/ ClassifierReturns
    \/ SelectExperts
    \/ \E e \in Experts : CallExpertReturns(e)
    \/ \E e \in Experts : CollectResult(e)
    \/ FanOutReturns

FanOutNext ==
    \/ OrchestratorStep
    \/ \E e \in Experts : ExpertRunStep(e)

\* the expert whose model calls and tool calls need not come back
SlowExpert == "network_expert"

\* a diagnosis in which every call comes back, except that a model call or
\* a tool call of SlowExpert may stay out for ever: nothing in run or in
\* _call_experts_parallel ends such a call
SlowExpertSpec ==
    /\ FanOutInit
    /\ [][FanOutNext]_vars
    /\ WF_vars(OrchestratorStep)
    /\ \A e \in Experts \ {SlowExpert} : WF_vars(ExpertRunStep(e))

(* ---------------- properties ---------------- *)

\* the run of agent a returned the limit-exceeded result
ReturnedLimitMarker(a) ==
    /\ agent_pc[a] = "returned"
    /\ Get(agent_result[a], "error", None) = "tool call limit exceeded"

\* C1: a run invokes at most max_tool_calls tools; once the model has asked
\* for a tool for the (max_tool_calls+1)-th time the run has returned the
\* limit-exceeded result, has not raised, and exactly max_tool_calls tools
\* were invoked
C1_ToolCallLimit ==
    \A a \in Agents :
        /\ tool_invocations[a] <= max_tool_calls
        /\ tool_call_count[a] > max_tool_calls =>
              /\ ReturnedLimitMarker(a)
              /\ tool_call_count[a] = max_tool_calls + 1
              /\ tool_invocations[a] = max_tool_calls
              /\ Len(tool_results[a]) = max_tool_calls

\* C1 witness: with the default limit of 2 the HDFS expert asked for a tool
\* on 3 consecutive model calls and its run ended with the limit marker
C1_Witness ==
    /\ mode = "diagnose"
    /\ max_tool_calls = 2
    /\ model_calls["hdfs_expert"] = 3
    /\ tool_call_count["hdfs_expert"] = 3
    /\ tool_invocations["hdfs_expert"] = 2
    /\ ReturnedLimitMarker("hdfs_expert")

\* C2: when every model call and every tool call comes back, a run makes at
\* most max_tool_calls+1 model calls and ends (returns or raises)
C2_RunTerminates ==
    \A a \in Agents :
        /\ [](model_calls[a] <= max_tool_calls + 1)
        /\ (agent_pc[a] \in {"call_model", "exec_tool"})
               ~> (agent_pc[a] \in Terminal)

\* C2 witness: a stand-alone run with limit 3 whose model asked for a tool on
\* every call ended after 4 model calls
C2_Witness ==
    /\ mode = "run"
    /\ max_tool_calls = 3
    /\ agent_pc["hdfs_expert"] = "returned"
    /\ model_calls["hdfs_expert"] = 4
    /\ tool_call_count["hdfs_expert"] = 4

\* the fan-out has returned to _diagnose_structured
AfterFanOut ==
    \/ orch_pc \in {"FAIL", "DISCUSS", "FORMAT", "DONE"}
    \/ orch_pc = "RAISED" /\ raised_by \in {"discussion", "formatter"}

\* the entries of the results list that belong to expert e
EntriesOf(e) ==
    {i \in 1..Len(results) : Get(results[i], "expert_name", None) = e}

\* C3: after the fan-out every selected expert has run to its end and has
\* exactly one entry in the results list: the dict its own run returned
\* (with expert_name set) if it returned, and the marker
\* {expert_name, error} carrying its own exception if it raised
C3_FailureIsolation ==
    AfterFanOut =>
        \A e \in Range(expert_names) :
            /\ agent_pc[e] \in Terminal
            /\ Cardinality(EntriesOf(e)) = 1
            /\ \A i \in EntriesOf(e) :
                  IF agent_pc[e] = "returned"
                  THEN results[i] = Put(agent_result[e], "expert_name", e)
                  ELSE /\ DOMAIN results[i] = {"expert_name", "error"}
                       /\ results[i].error = agent_error[e]

\* C3 witness: of two selected experts one raised and the other returned a
\* diagnosis, and the fan-out has returned
C3_Witness ==
    /\ orch_pc = "DISCUSS"
    /\ expert_names = <<"hdfs_expert", "network_expert">>
    /\ agent_pc["hdfs_expert"] = "raised"
    /\ agent_pc["network_expert"] = "returned"
    /\ "diagnosis_text" \in DOMAIN agent_result["network_expert"]

\* C4: the Discussion Agent's run, the all-experts-failed decision and all
\* that follows happen only when every selected expert's unit of work has
\* finished
C4_Barrier ==
    (mode = "diagnose"
        /\ (AfterFanOut \/ agent_pc["discussion"] # "idle"
               \/ DOMAIN report # {})) =>
        \A e \in Range(expert_names) :
            /\ future[e] = "done"
            /\ agent_pc[e] \in Terminal

\* C4 witness: the Discussion Agent has made its model call after a fan-out
\* to two experts
C4_Witness ==
    /\ orch_pc = "DISCUSS"
    /\ model_calls["discussion"] = 1
    /\ Len(expert_names) = 2
    /\ Len(results) = 2

\* the results of the fan-out in submission order
SubmissionOrderResults ==
    [i \in 1..Len(expert_names) |-> future_result[expert_names[i]]]

\* the entries of a results list without an "error" key
SucceededResults(rs) == SelectSeq(rs, LAMBDA r : "error" \notin DOMAIN r)

\* C5: the Discussion Agent's prompt and the report's expert_diagnoses are
\* the same for every completion order of the experts, i.e. they are what
\* the completion order that equals the submission order yields
C5_OrderIndependent ==
    /\ orch_pc = "DISCUSS" =>
          DiscussionBuildPrompt(discussion_input) =
              DiscussionBuildPrompt(
                  [discussion_input EXCEPT
                      !.expert_results =
                          SucceededResults(SubmissionOrderResults)])
    /\ "expert_diagnoses" \in DOMAIN report =>
          report.expert_diagnoses = SucceededResults(SubmissionOrderResults)

\* C6: the Discussion Agent is run iff some expert result is valid, and gets
\* exactly the valid ones; a report with a discussion has at least one
\* expert diagnosis; with no valid result the report is
\* {error, classification, expert_results} and has no discussion
C6_DiscussionNeedsExpert ==
    /\ (mode = "diagnose" /\ agent_pc["discussion"] # "idle") =>
          /\ AfterFanOut
          /\ Len(SucceededResults(results)) >= 1
          /\ discussion_input.expert_results = SucceededResults(results)
    /\ AfterFanOut =>
          IF Len(SucceededResults(results)) >= 1
          THEN agent_pc["discussion"] # "idle"
          ELSE /\ agent_pc["discussion"] = "idle"
               /\ model_calls["discussion"] = 0
               /\ DOMAIN report = {"error", "classification", "expert_results"}
               /\ report.classification = classification_result
               /\ report.expert_results = results
    /\ "discussion" \in DOMAIN report =>
          /\ "error" \notin DOMAIN report
          /\ Len(report.expert_diagnoses) >= 1

\* C6 witness: both selected experts raised and the structured report was
\* returned
C6_Witness ==
    /\ orch_pc = "DONE"
    /\ output_format = "structured"
    /\ Len(expert_names) = 2
    /\ \A e \in Range(expert_names) : agent_pc[e] = "raised"
    /\ "error" \in DOMAIN returned.value

\* the value diagnose returned shows the all-experts-failed error
ReturnedCarriesError ==
    IF returned.kind = "report"
    THEN "error" \in DOMAIN returned.value
    ELSE \E i \in 1..Len(returned.value) : returned.value[i].section = "error"

\* C7: when no expert succeeded, what diagnose returns carries the
\* all-experts-failed error, in the structured and in the text format
C7_FailureSurfaced ==
    (orch_pc = "DONE" /\ Len(SucceededResults(results)) = 0) =>
        ReturnedCarriesError

\* C8: diagnose does not raise because of a failure of the classifier or of
\* the Discussion Agent
C8_NoAbort ==
    ~(orch_pc = "RAISED" /\ raised_by \in {"classifier", "discussion"})

\* the stages that may directly follow a stage
StageSuccessors(stage) ==
    CASE stage = "COLLECT_CONTEXT" -> {"CLASSIFY"}
      [] stage = "CLASSIFY" -> {"SELECT_EXPERTS", "RAISED"}
      [] stage = "SELECT_EXPERTS" -> {"FAN_OUT"}
      [] stage = "FAN_OUT" -> {"FAIL", "DISCUSS"}
      [] stage = "FAIL" -> {"FORMAT"}
      [] stage = "DISCUSS" -> {"FORMAT", "RAISED"}
      [] stage = "FORMAT" -> {"DONE", "RAISED"}
      [] OTHER -> {}

\* C9: the stage of a diagnosis only ever moves forward along
\* COLLECT_CONTEXT, CLASSIFY, SELECT_EXPERTS, FAN_OUT, FAIL or DISCUSS,
\* FORMAT, DONE (a run that raises stops where it is), so no stage is
\* entered twice
C9_StageOrder ==
    [][orch_pc' # orch_pc => orch_pc' \in StageSuccessors(orch_pc)]_vars

\* C9 witness: a diagnosis went through the discussion and is done
C9_Witness ==
    /\ orch_pc = "DONE"
    /\ "discussion" \in DOMAIN report
    /\ model_calls["classifier"] = 1
    /\ model_calls["discussion"] = 1

\* C10: select_experts returns exactly ["generic_expert"] for a fault type
\* that is not a key of the taxonomy, with and without related experts
C10_UnknownFaultGeneric ==
    /\ \A i \in 1..Len(select_log) :
          select_log[i].fault_type \notin DOMAIN FAULT_TYPE_LIBRARY =>
              select_log[i].result = <<"generic_expert">>
    /\ (orch_pc \in {"FAN_OUT", "FAIL", "DISCUSS", "FORMAT", "DONE"}
           /\ FaultTypeOf(classification_result)
                  \notin DOMAIN FAULT_TYPE_LIBRARY) =>
          expert_names = <<"generic_expert">>

\* C10 witness: the selector was called with "" without related experts and
\* with "unknown" with related experts
C10_Witness ==
    /\ Len(select_log) = 2
    /\ select_log[1].fault_type = ""
    /\ ~select_log[1].include_related
    /\ select_log[2].fault_type = "unknown"
    /\ select_log[2].include_related
    /\ select_log[2].result = <<"generic_expert">>

\* the names of a list are pairwise different
NoRepeats(xs) == \A i, j \in 1..Len(xs) : xs[i] = xs[j] => i = j

\* the position of name x in list xs
IndexOf(xs, x) == CHOOSE i \in 1..Len(xs) : xs[i] = x

\* C11: for a fault type of the taxonomy select_experts returns, with
\* include_related, the primary experts in their order followed by the
\* related experts that are not primary, without repeats, and without
\* include_related exactly the primary experts; datanode_down gives
\* [hdfs_expert, network_expert]; no call changes the selector's table, and
\* two calls with the same arguments return the same list
C11_SelectPrimaryThenRelated ==
    /\ fault_expert_mapping = BuildFaultExpertMapping
    /\ \A i \in 1..Len(select_log) :
          LET ft == select_log[i].fault_type
              res == select_log[i].result
          IN ft \in DOMAIN FAULT_TYPE_LIBRARY =>
                LET p == BuildFaultExpertMapping[ft].primary
                    r == BuildFaultExpertMapping[ft].related
                IN IF select_log[i].include_related
                   THEN /\ NoRepeats(res)
                        /\ Range(res) = Range(p) \cup Range(r)
                        /\ SubSeq(res, 1, Len(p)) = p
                        /\ \A x \in Range(r) \ Range(p) :
                              \A y \in Range(p) :
                                  IndexOf(res, y) < IndexOf(res, x)
                        /\ ft = "datanode_down" =>
                               res = <<"hdfs_expert", "network_expert">>
                   ELSE res = p
    /\ \A i, j \in 1..Len(select_log) :
          (select_log[i].fault_type = select_log[j].fault_type
              /\ select_log[i].include_related = select_log[j].include_related)
            => select_log[i].result = select_log[j].result
    /\ (orch_pc \in {"FAN_OUT", "FAIL", "DISCUSS", "FORMAT", "DONE"}
           /\ FaultTypeOf(classification_result) = "datanode_down") =>
          expert_names = <<"hdfs_expert", "network_expert">>

\* C11 witness: datanode_down was selected with related experts and then
\* without them on the same selector
C11_Witness ==
    /\ Len(select_log) = 2
    /\ select_log[1].fault_type = "datanode_down"
    /\ select_log[1].include_related
    /\ select_log[1].result = <<"hdfs_expert", "network_expert">>
    /\ select_log[2].fault_type = "datanode_down"
    /\ ~select_log[2].include_related
    /\ select_log[2].result = <<"hdfs_expert">>

\* C12: a run of the classifier makes exactly one model call, invokes no
\* tool and records no tool result, whatever the model answers (a tool-call
\* request included) and whatever the call limit is
C12_ClassifierOneModelCall ==
    /\ tool_invocations["classifier"] = 0
    /\ tool_results["classifier"] = <<>>
    /\ model_calls["classifier"] <= 1
    /\ agent_pc["classifier"] \in Terminal \cup {"exec_tool"} =>
          model_calls["classifier"] = 1

\* C12 witness: the classifier's model answered with prose around a
\* tool-call request for get_node_log, the request was taken up by run and
\* the run ended on the unknown tool after its single model call
C12_Witness ==
    /\ pending_tool["classifier"] = ToolCallObj("get_node_log")
    /\ tool_call_count["classifier"] = 1
    /\ agent_pc["classifier"] = "raised"
    /\ agent_error["classifier"] = "ValueError: unknown tool"
    /\ model_calls["classifier"] = 1

\* the exceptions that leave the classifier's parse_output
ParseErrors == {"ValueError", "TypeError", "JSONDecodeError"}

\* a dict is a usable classification: it names a fault type and its
\* confidence is a number
UsableClassification(d) ==
    /\ "fault_type" \in DOMAIN d
    /\ Get(d, "confidence", None) \in Numerals

\* C13: the classifier's parse_output never raises: no run of the
\* classifier ends with a parse error, and what a run returns after parsing
\* is a usable classification or the degraded result
\* {fault_type: "unknown", confidence: 0.0, category: "generic", reasoning}
C13_ClassifierParseNeverRaises ==
    /\ agent_error["classifier"] \notin ParseErrors
    /\ (agent_pc["classifier"] = "returned"
           /\ ~ReturnedLimitMarker("classifier")) =>
          \/ UsableClassification(agent_result["classifier"])
          \/ agent_result["classifier"] = ClassifierDefault

\* the keys a Classification must have
ClassificationKeys == {"fault_type", "confidence", "category"}

\* the category of a fault type: the taxonomy's, "generic" if it has none
CategoryOf(ft) ==
    IF ft \in DOMAIN FAULT_TYPE_LIBRARY THEN FAULT_TYPE_LIBRARY[ft]
    ELSE "generic"

\* C14: every result the classifier returns after parsing has the keys
\* fault_type, confidence and category, and when the model's JSON object
\* names a fault type but no category, the category is the taxonomy's for
\* that fault type, "generic" if the taxonomy does not have it
C14_ClassifierRequiredKeys ==
    (agent_pc["classifier"] = "returned"
        /\ ~ReturnedLimitMarker("classifier")) =>
        LET res == agent_result["classifier"]
            js == last_response["classifier"].json
        IN /\ ClassificationKeys \subseteq DOMAIN res
           /\ (js.type = "object" /\ "fault_type" \in DOMAIN js.obj
                  /\ "category" \notin DOMAIN js.obj) =>
                 res.category = CategoryOf(js.obj.fault_type)

\* the keys a DiscussionResult must have
DiscussionKeys ==
    {"consensus", "final_root_cause", "final_evidence", "final_fix_steps",
     "confidence"}

\* C15: a run of the Discussion Agent on at least one valid expert diagnosis
\* whose model call returned never ends with an exception: it returns a
\* dict with the keys consensus, final_root_cause, final_evidence,
\* final_fix_steps and confidence, and when the text is not one JSON
\* document the dict has consensus = true and confidence = 0.5
C15_DiscussionAlwaysReturns ==
    (mode = "diagnose" /\ agent_pc["discussion"] \in Terminal
        /\ Len(discussion_input.expert_results) >= 1
        /\ last_response["discussion"] # NoText) =>
        /\ agent_pc["discussion"] = "returned"
        /\ agent_error["discussion"] \notin ParseErrors
        /\ DiscussionKeys \subseteq DOMAIN agent_result["discussion"]
        /\ ~json_loads(StripCodeFence(last_response["discussion"])).ok =>
               /\ agent_result["discussion"].consensus = TRUE
               /\ agent_result["discussion"].confidence = "0.5"

\* the exceptions _execute_tool raises
ToolErrors == {"ValueError: unknown tool", "RuntimeError: tool failed"}

\* C16: a tool failure in a run (a tool name the agent does not hold, or a
\* tool that raises) never leaves the run as an exception: the run has
\* returned a dict that carries the error
C16_ToolFailureIsResult ==
    \A a \in Agents :
        /\ agent_error[a] \notin ToolErrors
        /\ (agent_pc[a] \in Terminal /\ pending_tool[a] # EmptyDict
               /\ Len(tool_results[a]) < tool_call_count[a]
               /\ ~ReturnedLimitMarker(a)) =>
              /\ agent_pc[a] = "returned"
              /\ "error" \in DOMAIN agent_result[a]

\* the keys of the context collect_all_context returns
ContextKeys == {"timestamp", "logs", "metrics", "cluster_state"}

\* C17: collect_all_context returns a context with the keys timestamp,
\* logs, metrics and cluster_state for every combination of outcomes of its
\* sources; logs is what the log source returned, {} if it raised, whatever
\* the metrics source did; metrics is what the metrics source returned, {}
\* if it raised, whatever the log source did; cluster_state is {} if the
\* derivation raised and the state derived from the metrics otherwise (the
\* neutral all-zero "unknown" state when there are no metrics)
C17_CollectIndependent ==
    global_context # EmptyDict =>
        /\ DOMAIN global_context = ContextKeys
        /\ global_context.logs =
               (IF log_source.ok THEN log_source.value ELSE EmptyDict)
        /\ global_context.metrics =
               (IF metrics_source.ok THEN metrics_source.value ELSE EmptyDict)
        /\ IF ExtractClusterState(global_context.metrics).ok
           THEN /\ DOMAIN global_context.cluster_state =
                       {"datanode_count", "hdfs_status", "storage"}
                /\ LET dn == global_context.cluster_state.datanode_count
                   IN dn.total = dn.live + dn.dead
           ELSE global_context.cluster_state = EmptyDict
        /\ ~metrics_source.ok =>
               global_context.cluster_state = InitialClusterState
        /\ metrics_source = Ok(CollectedMetrics) =>
               /\ global_context.cluster_state.datanode_count =
                      [live |-> 2, dead |-> 1, total |-> 3]
               /\ global_context.cluster_state.hdfs_status = "degraded"

\* C17 witness: a stand-alone collection in which reading the logs raised,
\* the metrics were collected and the cluster state derived from them
C17_Witness ==
    /\ mode = "collect"
    /\ ~log_source.ok
    /\ metrics_source = Ok(CollectedMetrics)
    /\ DOMAIN global_context = ContextKeys
    /\ global_context.logs = EmptyDict
    /\ global_context.metrics = CollectedMetrics
    /\ global_context.cluster_state.hdfs_status = "degraded"

\* the agents whose prompt shows the tool results
ToolPromptAgents == {"hdfs_expert", "yarn_expert"}

\* the tool results the k-th model call of agent a has to see: the entries
\* the caller's input already held, then the first k-1 entries of the run
ResultsBeforeCall(a, k) ==
    Get(input_at_call, "tool_results", <<>>)
        \o SubSeq(tool_results[a], 1, k - 1)

\* C18: the tool loop of a run is sequential and cumulative: a model call is
\* issued only when every earlier tool request of the run has been executed
\* and its result appended (before the k-th model call the run has invoked
\* k-1 tools and appended k-1 results); the prompt of the k-th model call
\* shows exactly these k-1 results, in execution order, after the entries
\* the caller's input held; a run that returns a diagnosis after k model
\* calls has invoked k-1 tools and returns what the last answer parses to
\* (2 model calls and 1 tool call when the first answer asks for
\* get_node_log and the second is a diagnosis)
C18_SequentialCumulative ==
    \A a \in Agents :
        /\ agent_pc[a] = "call_model" =>
              /\ tool_invocations[a] = model_calls[a]
              /\ Len(tool_results[a]) = model_calls[a]
        /\ agent_pc[a] = "exec_tool" =>
              /\ tool_invocations[a] = model_calls[a] - 1
              /\ Len(tool_results[a]) = model_calls[a] - 1
        /\ (a \in ToolPromptAgents /\ model_calls[a] >= 1) =>
              last_prompt[a] =
                  [i \in 1..Len(ResultsBeforeCall(a, model_calls[a])) |->
                      [tool |-> ResultsBeforeCall(a, model_calls[a])[i].tool,
                       result |->
                           ResultsBeforeCall(a, model_calls[a])[i].result]]
        /\ (a \in Experts /\ agent_pc[a] = "returned"
               /\ ~ReturnedLimitMarker(a)) =>
              /\ tool_invocations[a] = model_calls[a] - 1
              /\ Len(tool_results[a]) = model_calls[a] - 1
              /\ agent_result[a] = DiagnosisOf(a, last_response[a])

\* C18 witness: in a diagnosis the HDFS expert's first model call asked for
\* get_node_log, the tool ran, the second model call saw its result and
\* answered with a diagnosis, which the run returned
C18_Witness ==
    /\ mode = "diagnose"
    /\ agent_pc["hdfs_expert"] = "returned"
    /\ model_calls["hdfs_expert"] = 2
    /\ tool_invocations["hdfs_expert"] = 1
    /\ tool_results["hdfs_expert"] =
           <<[tool |-> "get_node_log", args |-> "{}",
              result |-> "tool output"]>>
    /\ last_prompt["hdfs_expert"] =
           <<[tool |-> "get_node_log", result |-> "tool output"]>>
    /\ "diagnosis_text" \in DOMAIN agent_result["hdfs_expert"]

\* the model text is a tool-call request {"action": "call_tool", "tool": t}
\* for a tool t that expert e holds
RequestsHeldTool(e, response) ==
    /\ response.wrap = "bare"
    /\ response.json.type = "object"
    /\ Get(response.json.obj, "action", None) = "call_tool"
    /\ Get(response.json.obj, "tool", None) \in AgentTools(e)

\* C19: for every expert, a model answer that is a tool-call request for a
\* tool the expert holds is taken up by the tool loop (the tool is executed
\* and the run goes on to a further model call, or the call limit ends the
\* run); the request text is never returned as the expert's diagnosis
C19_EveryExpertLoops ==
    \A e \in Experts :
        RequestsHeldTool(e, last_response[e]) =>
            /\ tool_call_count[e] >= 1
            /\ ~(agent_pc[e] = "returned"
                    /\ "diagnosis_text" \in DOMAIN agent_result[e])

\* C20: a run never changes its caller's input dict: the dict has the keys
\* and values it had when run was called, and a tool_results list it held is
\* not appended to; the experts of a fan-out, which share one input dict,
\* each see in their prompts only tool results of their own run
C20_InputUntouched ==
    /\ input_data = input_at_call
    /\ mode = "diagnose" =>
          \A e \in Experts :
              /\ Len(last_prompt[e]) <= tool_invocations[e]
              /\ Len(Get(current_input(e), "tool_results", <<>>)) =
                     tool_invocations[e]

\* the model text is a tool-call request {"action": "call_tool", "tool": t}
\* for a tool t that expert e does not hold
RequestsOutsideTool(e, response) ==
    /\ response.wrap = "bare"
    /\ response.json.type = "object"
    /\ Get(response.json.obj, "action", None) = "call_tool"
    /\ Get(response.json.obj, "tool", None) \notin AgentTools(e) \cup {None}

\* C21: every expert holds a subset of the tool registry and executes only
\* tools of that subset: the network expert does not hold
\* hadoop_auto_operation; every tool result an expert's run recorded, and
\* every tool that failed in it, is of a tool the expert holds; and a run
\* whose first model answer asked for a tool outside the expert's subset,
\* with a call limit of at least 1, has ended with the unknown-tool error
C21_LeastPrivilege ==
    /\ "hadoop_auto_operation" \notin AgentTools("network_expert")
    /\ \A e \in Experts :
          /\ AgentTools(e) \subseteq ToolRegistry
          /\ \A i \in 1..Len(tool_results[e]) :
                tool_results[e][i].tool \in AgentTools(e)
          /\ agent_error[e] = "RuntimeError: tool failed" =>
                pending_tool[e].tool \in AgentTools(e)
          /\ (agent_pc[e] \in Terminal /\ max_tool_calls >= 1
                 /\ model_calls[e] = 1
                 /\ RequestsOutsideTool(e, last_response[e])) =>
                /\ agent_pc[e] = "raised"
                /\ agent_error[e] = "ValueError: unknown tool"

\* the positions of expert e's entries in a list of expert results
PositionsOf(rs, e) ==
    {i \in 1..Len(rs) : Get(rs[i], "expert_name", None) = e}

\* a name that is not a key of the orchestrator's expert registry
UnregisteredExpert == "storage_expert"

\* C22: the Discussion Agent's expert_results are the fan-out's results
\* without the entries that carry "error", in the order of the results: a
\* selected expert whose run returned a diagnosis has exactly one entry, the
\* dict its run returned; an expert whose run raised or returned the
\* limit-exceeded result has none; so would the marker of a name that is
\* not a registered expert
C22_DiscussionGetsValidOnly ==
    (mode = "diagnose" /\ agent_pc["discussion"] # "idle") =>
        LET ers == discussion_input.expert_results
        IN /\ \A i \in 1..Len(ers) :
                 /\ "error" \notin DOMAIN ers[i]
                 /\ ers[i].expert_name \in Range(expert_names)
           /\ \A e \in Range(expert_names) :
                 IF agent_pc[e] = "returned" /\ ~ReturnedLimitMarker(e)
                 THEN /\ Cardinality(PositionsOf(ers, e)) = 1
                      /\ \A i \in PositionsOf(ers, e) :
                            ers[i] = Put(agent_result[e], "expert_name", e)
                 ELSE PositionsOf(ers, e) = {}
           /\ \A i, j \in 1..Len(ers) :
                 i < j =>
                     \A m \in PositionsOf(results, ers[i].expert_name) :
                         \A n \in PositionsOf(results, ers[j].expert_name) :
                             m < n
           /\ ValidExpertResults(
                  Append(results,
                         CallExpertResult(UnregisteredExpert, "idle",
                                          EmptyDict, None))) = ers

\* C22 witness: the HDFS expert's run ended with the limit-exceeded result,
\* the network expert returned a diagnosis, and the Discussion Agent was
\* given the network expert's diagnosis only
C22_Witness ==
    /\ orch_pc = "DISCUSS"
    /\ ReturnedLimitMarker("hdfs_expert")
    /\ Len(results) = 2
    /\ Len(discussion_input.expert_results) = 1
    /\ discussion_input.expert_results[1].expert_name = "network_expert"
    /\ "diagnosis_text" \in DOMAIN discussion_input.expert_results[1]

\* C23: no expert can hold up the diagnosis: also when a model call or a
\* tool call of one selected expert never comes back, a diagnosis that has
\* started its fan-out reaches DISCUSS or FAIL
C23_NoExpertBlocks ==
    (orch_pc = "FAN_OUT") ~> (orch_pc \in {"DISCUSS", "FAIL"})

\* the experts for which a unit of work was submitted to the pool
Submitted == {e \in Experts : future[e] # "none"}

\* C24: the fan-out submits one unit of work per selected expert and returns
\* one entry per selected expert: the names with a submitted unit of work
\* are the selected names; while the results are collected every collected
\* expert has exactly one entry; when the fan-out has returned the list is
\* as long as the list of names, every name is the expert_name of exactly
\* one entry, and that entry is the dict the expert's run returned or an
\* {expert_name, error} marker
C24_OneEntryPerExpert ==
    /\ Submitted = Range(expert_names)
    /\ Cardinality(Submitted) = Len(expert_names)
    /\ orch_pc = "FAN_OUT" =>
          /\ Len(results) = Cardinality(collected)
          /\ \A e \in collected : Cardinality(PositionsOf(results, e)) = 1
    /\ AfterFanOut =>
          /\ Len(results) = Len(expert_names)
          /\ \A i \in 1..Len(results) :
                Get(results[i], "expert_name", None) \in Range(expert_names)
          /\ \A e \in Range(expert_names) :
                /\ Cardinality(PositionsOf(results, e)) = 1
                /\ \A i \in PositionsOf(results, e) :
                      \/ /\ agent_pc[e] = "returned"
                         /\ results[i] = Put(agent_result[e], "expert_name", e)
                      \/ DOMAIN results[i] = {"expert_name", "error"}

\* C24 witness: the fan-out to the HDFS and the network expert has returned
\* two entries, the network expert's diagnosis first and then the marker of
\* the HDFS expert, whose run raised
C24_Witness ==
    /\ orch_pc = "DISCUSS"
    /\ expert_names = <<"hdfs_expert", "network_expert">>
    /\ Len(results) = 2
    /\ results[1].expert_name = "network_expert"
    /\ "diagnosis_text" \in DOMAIN results[1]
    /\ results[2].expert_name = "hdfs_expert"
    /\ "error" \in DOMAIN results[2]
    /\ agent_pc["hdfs_expert"] = "raised"

\* the JSON object a model text holds inside surrounding prose, if any
EmbeddedObject(response) ==
    IF response.wrap = "prose" /\ response.json.type = "object"
    THEN Ok(response.json.obj)
    ELSE Raise("no embedded object")

\* C25: the classifier and the Discussion Agent both recover a JSON object
\* that the model wrapped in prose: the result a run returns for such a
\* text carries the values of that object, and is not the default of a
\* parse failure
C25_SameTolerantExtraction ==
    \A a \in {"classifier", "discussion"} :
        (agent_pc[a] = "returned" /\ ~ReturnedLimitMarker(a)
            /\ EmbeddedObject(last_response[a]).ok) =>
            LET obj == EmbeddedObject(last_response[a]).value
                res == agent_result[a]
            IN /\ res # DiscussionDefault
               /\ res # ClassifierDefault
               /\ \A k \in DOMAIN obj : k \in DOMAIN res /\ res[k] = obj[k]

\* the place of a section in the report's fixed order
SectionRank(section) ==
    CASE section = "classification" -> 1
      [] section = "expert" -> 2
      [] section = "discussion" -> 3
      [] section = "cluster_state" -> 4
      [] OTHER -> 5

\* the fields of an expert's subsection
ExpertFields == {"root_cause", "evidence", "fix_steps", "confidence"}

\* the sections of a rendered text that are expert subsections
ExpertSectionsOf(text) == SelectSeq(text, LAMBDA s : s.section = "expert")

\* C26: the text diagnose returns has its sections in the order
\* classification, expert diagnoses, discussion, cluster state; every
\* section whose source is in the report is there; and there is one
\* subsection per expert diagnosis, in the report's order, with the
\* expert's name and each of root_cause, evidence, fix_steps and confidence
\* that the diagnosis holds, also when the diagnosis holds diagnosis_text
C26_ReportSections ==
    (orch_pc = "DONE" /\ returned.kind = "text") =>
        LET text == returned.value
            kinds == {text[i].section : i \in 1..Len(text)}
            subs == ExpertSectionsOf(text)
        IN /\ \A i, j \in 1..Len(text) :
                 i < j => SectionRank(text[i].section)
                              <= SectionRank(text[j].section)
           /\ "classification" \in DOMAIN report => "classification" \in kinds
           /\ "discussion" \in DOMAIN report => "discussion" \in kinds
           /\ ("global_context" \in DOMAIN report
                  /\ "cluster_state" \in DOMAIN report.global_context) =>
                 "cluster_state" \in kinds
           /\ "expert_diagnoses" \in DOMAIN report =>
                 /\ Len(subs) = Len(report.expert_diagnoses)
                 /\ \A i \in 1..Len(subs) :
                       /\ subs[i].expert_name =
                              report.expert_diagnoses[i].expert_name
                       /\ \A k \in ExpertFields :
                             k \in DOMAIN report.expert_diagnoses[i] =>
                                 k \in Range(subs[i].fields)

\* the keys of a complete expert diagnosis
DiagnosisKeys == {"root_cause", "evidence", "fix_steps", "confidence"}

\* C27: the run of an expert whose model answered (with anything but a tool
\* request that the run serves) does not end with an exception of the field
\* extraction and returns a dict with root_cause, evidence, fix_steps and
\* confidence; a field the text does not give takes its placeholder (the
\* default confidence is 0.8, for the generic expert 0.7); evidence and
\* fix_steps are never empty lists, and the confidence lies in [0, 1]
C27_ExtractionComplete ==
    \A e \in Experts :
        /\ agent_error[e] \notin ParseErrors
        /\ (agent_pc[e] = "returned" /\ ~ReturnedLimitMarker(e)) =>
              LET res == agent_result[e]
                  found == FoundIn(last_response[e])
              IN /\ DiagnosisKeys \subseteq DOMAIN res
                 /\ Len(res.evidence) >= 1
                 /\ Len(res.fix_steps) >= 1
                 /\ res.confidence >= 0
                 /\ res.confidence <= 100
                 /\ "root_cause" \notin DOMAIN found =>
                        res.root_cause = "unspecified"
                 /\ "evidence" \notin DOMAIN found =>
                        res.evidence = <<"see diagnosis text">>
                 /\ "fix_steps" \notin DOMAIN found =>
                        res.fix_steps = <<"see diagnosis text">>
                 /\ "confidence" \notin DOMAIN found =>
                        res.confidence =
                            (IF e = "generic_expert" THEN 70 ELSE 80)

\* C27 witness: the HDFS expert's model wrote a diagnosis with a confidence
\* of 150, six evidence items, eleven fix steps and a blank root cause; the
\* run returned confidence 1.0, the first five and the first ten items
C27_Witness ==
    /\ agent_pc["hdfs_expert"] = "returned"
    /\ "diagnosis_text" \in DOMAIN agent_result["hdfs_expert"]
    /\ Get(FoundIn(last_response["hdfs_expert"]), "confidence", 0) = 15000
    /\ agent_result["hdfs_expert"].confidence = 100
    /\ Len(agent_result["hdfs_expert"].evidence) = 5
    /\ Len(agent_result["hdfs_expert"].fix_steps) = 10
    /\ agent_result["hdfs_expert"].root_cause = ""

\* a list of expert names the fan-out can start with: not empty, without
\* repeats, every name a key of the orchestrator's expert registry
StartsFanOut(names) ==
    /\ Len(names) >= 1
    /\ NoRepeats(names)
    /\ Range(names) \subseteq RegisteredExperts

\* C28: for every fault type, in the taxonomy or not, and both values of
\* include_related, select_experts returns a non-empty list without repeats
\* of registered expert names; so in a diagnosis the pool is created with at
\* least one worker, every selected expert is run, and no entry is the
\* marker of an expert that does not exist
C28_SelectionStartsFanOut ==
    /\ \A i \in 1..Len(select_log) : StartsFanOut(select_log[i].result)
    /\ \A ft \in FaultTypeInputs : \A b \in BOOLEAN :
          StartsFanOut(select_experts(fault_expert_mapping, ft, b))
    /\ orch_pc \in {"FAN_OUT", "FAIL", "DISCUSS", "FORMAT", "DONE"} =>
          /\ StartsFanOut(expert_names)
          /\ \A e \in Range(expert_names) : agent_pc[e] # "idle"
    /\ \A e \in Experts :
          Get(future_result[e], "error", None) # "no such expert"
    /\ \A i \in 1..Len(results) :
          Get(results[i], "error", None) # "no such expert"

\* C28 witness: the selector was asked for mapreduce_memory_insufficient
\* with related experts and for a fault type outside the taxonomy without
\* them
C28_Witness ==
    /\ Len(select_log) = 2
    /\ select_log[1].fault_type = "mapreduce_memory_insufficient"
    /\ select_log[1].include_related
    /\ select_log[1].result = <<"mapreduce_expert", "yarn_expert">>
    /\ select_log[2].fault_type = "disk_full"
    /\ ~select_log[2].include_related
    /\ select_log[2].result = <<"generic_expert">>

\* a step of agent a's run in which a model answer is taken as a tool
\* request
TakesToolRequest(a) ==
    /\ agent_pc[a] = "call_model"
    /\ \/ agent_pc'[a] = "exec_tool"
       \/ /\ agent_pc'[a] = "returned"
          /\ Get(agent_result'[a], "error", None) = "tool call limit exceeded"

\* C29: in a run the call limit is tested before the tool is looked up or
\* executed: once the counter is above max_tool_calls the run has returned
\* the limit-exceeded result, has raised nothing and has invoked exactly
\* max_tool_calls tools, whatever tool the last request names; and the
\* counter goes up by one with every tool request and changes at no other
\* step
C29_LimitBeforeLookup ==
    /\ [](\A a \in Agents :
             tool_call_count[a] > max_tool_calls =>
                 /\ ReturnedLimitMarker(a)
                 /\ agent_error[a] = None
                 /\ tool_invocations[a] = max_tool_calls
                 /\ agent_result[a].last_response = last_response[a])
    /\ [][\A a \in Agents :
             tool_call_count'[a] =
                 IF TakesToolRequest(a) THEN tool_call_count[a] + 1
                 ELSE tool_call_count[a]]_vars

\* C29 witness: with a limit of 1 the HDFS expert's second tool request
\* names a tool it does not hold, and the run has returned the
\* limit-exceeded result after one tool invocation
C29_Witness ==
    /\ max_tool_calls = 1
    /\ tool_call_count["hdfs_expert"] = 2
    /\ RequestsOutsideTool("hdfs_expert", last_response["hdfs_expert"])
    /\ ReturnedLimitMarker("hdfs_expert")
    /\ tool_invocations["hdfs_expert"] = 1
    /\ agent_error["hdfs_expert"] = None

\* the NameNode part of the metrics is missing or flagged as an error
NoNameNodeMetrics(metrics) ==
    \/ "namenode" \notin DOMAIN metrics
    \/ Get(metrics.namenode, "status", None) = "error"

\* C30: a cluster state derived from metrics with non-negative live and
\* dead DataNode counts is consistent: total = live + dead; hdfs_status is
\* "degraded" exactly when dead > 0, "healthy" exactly when dead = 0 and
\* live > 0, and "unknown" otherwise; without NameNode metrics, or with
\* NameNode metrics flagged as error, all counts are 0 and the status is
\* "unknown"; the counts are the ones the metrics give
C30_ClusterStateConsistent ==
    (global_context # EmptyDict
        /\ global_context.cluster_state # EmptyDict) =>
        LET cs == global_context.cluster_state
            dn == cs.datanode_count
        IN /\ (dn.live >= 0 /\ dn.dead >= 0) =>
                 /\ dn.total = dn.live + dn.dead
                 /\ cs.hdfs_status = "degraded" <=> dn.dead > 0
                 /\ cs.hdfs_status = "healthy" <=>
                        (dn.dead = 0 /\ dn.live > 0)
                 /\ cs.hdfs_status = "unknown" <=>
                        (dn.dead = 0 /\ dn.live = 0)
           /\ NoNameNodeMetrics(global_context.metrics) =>
                 /\ dn = [live |-> 0, dead |-> 0, total |-> 0]
                 /\ cs.hdfs_status = "unknown"
           /\ metrics_source \in CountGridMetrics =>
                 LET nn == metrics_source.value.namenode.metrics
                 IN /\ dn.live = nn.live_datanodes.heartbeat_value.n
                    /\ dn.dead = nn.dead_datanodes.jmx_value.n

\* C30 witness: a stand-alone collection of metrics with 2 live and no dead
\* DataNodes gave the counts 2, 0, 2 and the status "healthy"
C30_Witness ==
    /\ mode = "collect"
    /\ metrics_source \in CountGridMetrics
    /\ global_context # EmptyDict
    /\ global_context.cluster_state.datanode_count =
           [live |-> 2, dead |-> 0, total |-> 2]
    /\ global_context.cluster_state.hdfs_status = "healthy"

====
